---- MODULE Spec2Model ----
(***************************************************************************)
(* Model of opsforms.py: two Streamlit forms (operator incident report and *)
(* operator pay exception form).  A submit validates the required fields   *)
(* and signatures, appends a row to a Google Sheet, renders a PDF and      *)
(* mails the PDF.  One action per user interaction (one script run).       *)
(***************************************************************************)
EXTENDS Integers, Sequences, FiniteSets, TLC

VARIABLES session_state, sheets, pdf_files, email_attempts, run, call

vars == <<session_state, sheets, pdf_files, email_attempts, run, call>>

(* ------------------------------ bounds --------------------------------- *)
\* largest number of required text fields a user leaves empty in one submit
\* (besides the untouched form, where all of them are empty)
MaxMissing == 1
\* rows in the spreadsheet, email attempts and Clear presses of a session
MaxRows == 2
MaxEmails == 2
MaxFormKey == 1

(* ------------------------------ values --------------------------------- *)
\* image_data of a canvas: None, or an RGBA array of which only the alpha
\* channel is read
NoneImage == [is_none |-> TRUE, alpha |-> <<>>]
Bitmap(a) == [is_none |-> FALSE, alpha |-> a]
\* the canvas before the component reported, a blank canvas, a canvas with
\* one faint stroke
Images == {NoneImage, Bitmap(<<0, 0>>), Bitmap(<<0, 1>>)}

\* Python values held by the widgets: str, bool, datetime.date, CanvasResult
Str(s) == [kind |-> "str", s |-> s, b |-> FALSE, ymd |-> <<>>, image_data |-> NoneImage]
Bool(b) == [kind |-> "bool", s |-> "", b |-> b, ymd |-> <<>>, image_data |-> NoneImage]
Date(ymd) == [kind |-> "date", s |-> "", b |-> FALSE, ymd |-> ymd, image_data |-> NoneImage]
Canvas(img) == [kind |-> "canvas", s |-> "", b |-> FALSE, ymd |-> <<>>, image_data |-> img]
\* datetime.datetime(year, month, day, hour, minute, second, microsecond)
DateTime(t) == [kind |-> "datetime", s |-> "", b |-> FALSE, ymd |-> t, image_data |-> NoneImage]

\* Python truthiness (bool(value)) of a widget value
Truthy(value) ==
  CASE value.kind = "str" -> value.s # ""
    [] value.kind = "bool" -> value.b
    [] OTHER -> TRUE

Today == <<2026, 11, 5>>

(* --------------------------- fixed field lists ------------------------- *)
incident_field_list ==
  <<
    <<"Date", "date">>, <<"Time", "time">>,
    <<"AM/PM", "am_pm1">>, <<"Brief #", "brief">>,
    <<"Operator Name", "operator_name">>, <<"Vehicle #", "vehicle">>,
    <<"Operator ID", "operator_id">>, <<"Route #", "route">>,
    <<"Depot", "depot">>, <<"Run #", "run">>,
    <<"Report Submitted To", "report_submitted_to">>, <<"Incident Type", "incident_type">>,
    <<"Incident Type Other", "incident_type_other">>, <<"Reported Immediately", "reported_immediately">>,
    <<"Reported to Dispatcher", "reported_to_dispatcher">>, <<"Reason for Non-Immediate Report", "reason_for_non_immediate_report">>,
    <<"SQM Responded", "sqm_respond_to_incident">>, <<"Responding SQM", "responding_sqm">>,
    <<"Date Incident Occurred", "date_incident_occurred">>, <<"Date Incident Reported", "date_incident_reported">>,
    <<"Time Incident Occurred", "time_incident_occurred">>, <<"AM/PM", "am_pm2">>,
    <<"Time Incident Reported", "time_incident_reported">>, <<"AM/PM", "am_pm3">>,
    <<"No Actual Date/Time", "no_actual_date_and_time">>, <<"Late Report", "late_report">>,
    <<"Incident Location", "incident_location">>, <<"Passenger Name", "passenger_name">>,
    <<"Passenger ID/Seat #", "passenger_id">>, <<"Explanation of Incident", "explanation_of_incident">>,
    <<"Signing SQM Name", "signed_sqm_name">>, <<"Date Submitted", "date_submitted">> >>

pay_field_list ==
  <<
    <<"Date", "date">>, <<"Name", "name">>,
    <<"Run #", "run">>, <<"Bus #", "bus_number">>,
    <<"ID #", "id_number">>, <<"Route #", "route">>,
    <<"Clock In", "clock_in">>, <<"AM/PM", "am_pm1">>,
    <<"Scheduled Clock In", "clock_in_before">>, <<"AM/PM", "am_pm2">>,
    <<"Clock Out", "clock_out">>, <<"AM/PM", "am_pm3">>,
    <<"Actual Clock Out", "actual_clock_out">>, <<"AM/PM", "am_pm4">>,
    <<"Weather", "weather">>, <<"Extra Work", "extra_work">>,
    <<"Traffic Delay", "traffic_delay">>, <<"Incident Report", "incident_report">>,
    <<"Bus Exchange", "bus_exchange">>, <<"Missed Meal", "missed_meal">>,
    <<"Road Call", "road_call">>, <<"Traffic Location", "traffic_location">>,
    <<"Time Reported to Command", "time_reported_to_command">>, <<"AM/PM", "am_pm5">>,
    <<"Explanation", "pay_explanation">>, <<"Operator Signature Date", "pay_operator_signature_date">>,
    <<"Signing SQM Name", "pay_signing_sqm_name">>, <<"Supervisor Signature Date", "pay_supervisor_signature_date">> >>

\* variant: the last column is left out
incident_columns_31 ==
  <<
    "date", "time", "am_pm1", "brief",
    "operator_name", "operator_id", "depot", "vehicle",
    "route", "run", "report_submitted_to", "incident_type",
    "incident_type_other", "reported_immediately", "reported_to_dispatcher", "reason_for_non_immediate_report",
    "sqm_respond_to_incident", "responding_sqm", "date_incident_occurred", "date_incident_reported",
    "time_incident_occurred", "am_pm2", "time_incident_reported", "am_pm3",
    "no_actual_date_and_time", "late_report", "incident_location", "passenger_name",
    "passenger_id", "explanation_of_incident", "signed_sqm_name" >>

\* variant: a column names the widget key instead of the data key
incident_columns_widget_key ==
  <<
    "date", "time", "am_pm1", "brief",
    "operator_name", "operator_id", "depot", "vehicle",
    "route", "run", "report_submitted_to", "incident_type",
    "incident_type_other", "reported_immediately", "reported_to_dispatcher", "reason_for_non_immediate_report",
    "sqm_respond_to_incident", "responding_sqm", "date_incident_occurred", "date_incident_reported",
    "time_incident_occurred", "am_pm2", "time_incident_reported", "am_pm3",
    "no_actual_date_and_time", "late_report", "incident_location", "passenger_name",
    "passenger_id", "explanation_of_incident", "incident_signed_sqm_name", "date_submitted" >>

incident_columns ==
  <<
    "date", "time", "am_pm1", "brief",
    "operator_name", "operator_id", "depot", "vehicle",
    "route", "run", "report_submitted_to", "incident_type",
    "incident_type_other", "reported_immediately", "reported_to_dispatcher", "reason_for_non_immediate_report",
    "sqm_respond_to_incident", "responding_sqm", "date_incident_occurred", "date_incident_reported",
    "time_incident_occurred", "am_pm2", "time_incident_reported", "am_pm3",
    "no_actual_date_and_time", "late_report", "incident_location", "passenger_name",
    "passenger_id", "explanation_of_incident", "signed_sqm_name", "date_submitted" >>

pay_columns ==
  <<
    "date", "name", "run", "bus_number",
    "id_number", "route", "clock_in", "am_pm1",
    "clock_in_before", "am_pm2", "clock_out", "am_pm3",
    "actual_clock_out", "am_pm4", "weather", "extra_work",
    "traffic_delay", "incident_report", "bus_exchange", "missed_meal",
    "road_call", "traffic_location", "time_reported_to_command", "am_pm5",
    "pay_explanation", "pay_operator_signature_date", "pay_signing_sqm_name", "pay_supervisor_signature_date" >>

IncidentDataVars ==
  <<
    <<"date", "date">>, <<"time", "time">>,
    <<"am_pm1", "am_pm1">>, <<"brief", "brief">>,
    <<"operator_name", "operator_name">>, <<"operator_id", "operator_id">>,
    <<"depot", "depot">>, <<"vehicle", "vehicle">>,
    <<"route", "route">>, <<"run", "run">>,
    <<"report_submitted_to", "report_submitted_to">>, <<"incident_type", "incident_type">>,
    <<"incident_type_other", "incident_type_other">>, <<"reported_immediately", "reported_immediately">>,
    <<"reported_to_dispatcher", "reported_to_dispatcher">>, <<"reason_for_non_immediate_report", "reason_for_non_immediate_report">>,
    <<"sqm_respond_to_incident", "sqm_respond_to_incident">>, <<"responding_sqm", "responding_sqm">>,
    <<"date_incident_occurred", "date_incident_occurred">>, <<"date_incident_reported", "date_incident_reported">>,
    <<"time_incident_occurred", "time_incident_occurred">>, <<"am_pm2", "am_pm2">>,
    <<"time_incident_reported", "time_incident_reported">>, <<"am_pm3", "am_pm3">>,
    <<"no_actual_date_and_time", "no_actual_date_and_time">>, <<"late_report", "late_report">>,
    <<"incident_location", "incident_location">>, <<"passenger_name", "passenger_name">>,
    <<"passenger_id", "passenger_id">>, <<"explanation_of_incident", "explanation_of_incident">>,
    <<"signed_sqm_name", "signed_sqm_name">>, <<"date_submitted", "date_submitted">> >>

PayDataVars ==
  <<
    <<"date", "date">>, <<"name", "name">>,
    <<"run", "run">>, <<"bus_number", "bus_number">>,
    <<"id_number", "id_number">>, <<"route", "route">>,
    <<"clock_in", "clock_in">>, <<"am_pm1", "am_pm1">>,
    <<"clock_in_before", "clock_in_before">>, <<"am_pm2", "am_pm2">>,
    <<"clock_out", "clock_out">>, <<"am_pm3", "am_pm3">>,
    <<"actual_clock_out", "actual_clock_out">>, <<"am_pm4", "am_pm4">>,
    <<"weather", "weather">>, <<"extra_work", "extra_work">>,
    <<"traffic_delay", "traffic_delay">>, <<"incident_report", "incident_report">>,
    <<"bus_exchange", "bus_exchange">>, <<"missed_meal", "missed_meal">>,
    <<"road_call", "road_call">>, <<"traffic_location", "traffic_location">>,
    <<"time_reported_to_command", "time_reported_to_command">>, <<"am_pm5", "am_pm5">>,
    <<"pay_explanation", "pay_explanation">>, <<"pay_operator_signature_date", "pay_operator_signature_date">>,
    <<"pay_signing_sqm_name", "pay_supervisor_signature_name">>, <<"pay_supervisor_signature_date", "pay_supervisor_signature_date">> >>

IncidentRequired ==
  <<
    <<"incident_time", "Time", "time">>,
    <<"incident_brief", "Brief #", "brief">>,
    <<"incident_operator_name", "Operator Name", "operator_name">>,
    <<"incident_vehicle", "Vehicle #", "vehicle">>,
    <<"incident_operator_id", "Operator ID", "operator_id">>,
    <<"incident_route", "Route #", "route">>,
    <<"incident_depot", "Depot", "depot">>,
    <<"incident_run", "Run #", "run">>,
    <<"incident_location", "Location of incident", "incident_location">>,
    <<"explanation_of_incident", "Explain what happened", "explanation_of_incident">>,
    <<"incident_signed_sqm_name", "Signed SQM Name", "signed_sqm_name">>,
    <<"operator_signature", "Operator Signature", "operator_signature">>,
    <<"supervisor_signature", "Supervisor Signature", "supervisor_signature">> >>

PayRequired ==
  <<
    <<"pay_date", "Date", "date">>,
    <<"pay_name", "Name", "name">>,
    <<"pay_run", "Run #", "run">>,
    <<"pay_bus_number", "Bus #", "bus_number">>,
    <<"pay_id_number", "ID #", "id_number">>,
    <<"pay_route", "Route #", "route">>,
    <<"pay_explanation", "Explanation", "pay_explanation">>,
    <<"pay_operator_signature_date", "Operator Signature Date", "pay_operator_signature_date">>,
    <<"pay_signing_sqm_name", "Signing SQM Name", "pay_supervisor_signature_name">>,
    <<"pay_supervisor_signature_date", "Supervisor Signature Date", "pay_supervisor_signature_date">>,
    <<"pay_operator_signature", "Operator Signature", "pay_operator_signature">>,
    <<"pay_supervisor_signature", "Supervisor Signature", "pay_supervisor_signature">> >>


(* ------------------------------ widgets -------------------------------- *)
Range(seq) == {seq[i] : i \in 1..Len(seq)}

\* the local variable of the form function bound to each widget
IncidentVars ==
  {IncidentDataVars[i][2] : i \in 1..Len(IncidentDataVars)}
    \cup {"operator_signature", "supervisor_signature"}

PayVars ==
  {PayDataVars[i][2] : i \in 1..Len(PayDataVars)}
    \cup {"pay_operator_signature", "pay_supervisor_signature"}

\* st.date_input widgets (they always hold a date), st.checkbox widgets and
\* st.radio widgets (index 0 is preselected)
IncidentDateVars ==
  {"date", "date_incident_occurred", "date_incident_reported", "date_submitted"}

IncidentCheckboxVars == {"no_actual_date_and_time", "late_report"}

IncidentRadioDefault ==
  [am_pm1 |-> "AM", am_pm2 |-> "AM", am_pm3 |-> "AM",
   report_submitted_to |-> "SQM", incident_type |-> "Passenger Accident",
   reported_immediately |-> "Yes", sqm_respond_to_incident |-> "Yes"]

PayDateVars ==
  {"date", "pay_operator_signature_date", "pay_supervisor_signature_date"}

PayCheckboxVars ==
  {"weather", "extra_work", "traffic_delay", "incident_report",
   "bus_exchange", "missed_meal", "road_call"}

PayRadioDefault ==
  [am_pm1 |-> "AM", am_pm2 |-> "AM", am_pm3 |-> "AM", am_pm4 |-> "AM",
   am_pm5 |-> "AM"]

\* the required st.text_input / st.text_area widgets of each form
IncidentRequiredText ==
  {r[3] : r \in {q \in Range(IncidentRequired) :
                   q[3] \notin {"operator_signature", "supervisor_signature"}}}

PayRequiredText ==
  {r[3] : r \in {q \in Range(PayRequired) :
                   q[3] \notin PayDateVars
                     \cup {"pay_operator_signature", "pay_supervisor_signature"}}}

\* the required text fields a user leaves empty: all of them (the untouched
\* form), or at most MaxMissing of the fields named here
IncidentMayBeEmpty == {"time", "explanation_of_incident"}

PayMayBeEmpty == {"pay_explanation"}

EmptySets(S, may) == {e \in SUBSET may : Cardinality(e) <= MaxMissing} \cup {S}

IncidentEmptySets == EmptySets(IncidentRequiredText, IncidentMayBeEmpty)

PayEmptySets == EmptySets(PayRequiredText, PayMayBeEmpty)

\* the texts a user types into the Brief # field of a form that is filled
\* and signed completely
BriefTexts == {"brief", "brief-2"}

\* what the user entered before a submit: the required text fields left
\* empty, the two signature bitmaps and the text for Brief #
Input(empty, op, sup, brief) ==
  [empty |-> empty, op |-> op, sup |-> sup, brief |-> brief]

IncidentInputs ==
  {Input(empty, op, sup, "brief") :
     empty \in IncidentEmptySets, op \in Images, sup \in Images}

\* the incident form filled and signed completely, with one of the texts
\* for Brief #
CompleteIncidentInputs ==
  {Input({}, Bitmap(<<0, 1>>), Bitmap(<<0, 1>>), brief) : brief \in BriefTexts}

PayInputs ==
  {Input(empty, op, sup, "") :
     empty \in PayEmptySets, op \in Images, sup \in Images}

\* the values of the incident form's widgets at a submit; the text typed
\* into a field is the field's own name, so that every filled field holds a
\* different text
IncidentWidgets(empty, op, sup, brief) ==
  [v \in IncidentVars |->
     CASE v = "operator_signature" -> Canvas(op)
       [] v = "supervisor_signature" -> Canvas(sup)
       [] v \in IncidentDateVars -> Date(Today)
       [] v \in IncidentCheckboxVars -> Bool(FALSE)
       [] v \in DOMAIN IncidentRadioDefault -> Str(IncidentRadioDefault[v])
       [] v = "brief" -> Str(IF v \in empty THEN "" ELSE brief)
       [] v \in IncidentRequiredText -> Str(IF v \in empty THEN "" ELSE v)
       [] OTHER -> Str("")]

\* the values of the pay exception form's widgets at a submit
PayWidgets(empty, op, sup) ==
  [v \in PayVars |->
     CASE v = "pay_operator_signature" -> Canvas(op)
       [] v = "pay_supervisor_signature" -> Canvas(sup)
       [] v \in PayDateVars -> Date(Today)
       [] v \in PayCheckboxVars -> Bool(FALSE)
       [] v \in DOMAIN PayRadioDefault -> Str(PayRadioDefault[v])
       [] v \in PayRequiredText -> Str(IF v \in empty THEN "" ELSE v)
       [] OTHER -> Str("")]

\* required_fields: key -> (label, value), in insertion order
incident_required_fields(w) ==
  [i \in 1..Len(IncidentRequired) |->
     <<IncidentRequired[i][1], IncidentRequired[i][2], w[IncidentRequired[i][3]]>>]

pay_required_fields(w) ==
  [i \in 1..Len(PayRequired) |->
     <<PayRequired[i][1], PayRequired[i][2], w[PayRequired[i][3]]>>]

\* the flat mapping from field name to value built at a submit
RECURSIVE FormDataFrom(_, _, _)
FormDataFrom(datavars, w, i) ==
  IF i > Len(datavars) THEN <<>>
  ELSE (datavars[i][1] :> w[datavars[i][2]]) @@ FormDataFrom(datavars, w, i + 1)

FormData(datavars, w) == FormDataFrom(datavars, w, 1)

incident_form_data(w) == FormData(IncidentDataVars, w)

pay_form_data(w) == FormData(PayDataVars, w)

(* ----------------------------- validation ------------------------------ *)
\* variant: the alpha channel is not looked at
is_signature_present_no_alpha(image_data) == ~image_data.is_none

\* np.any(image_data[:, :, 3] > 0)
is_signature_present(image_data) ==
  IF image_data.is_none THEN FALSE
  ELSE \E p \in DOMAIN image_data.alpha : image_data.alpha[p] > 0

\* the keys k of the two forms for which ("signature" in k) is true
KeysContainingSignature ==
  {"operator_signature", "supervisor_signature",
   "pay_operator_signature", "pay_supervisor_signature",
   "pay_operator_signature_date", "pay_supervisor_signature_date"}

\* value.image_data exists for a CanvasResult only; on a str or a date the
\* attribute access raises AttributeError
RECURSIVE ValidateFrom(_, _, _)
ValidateFrom(required_fields, i, missing_fields) ==
  IF i > Len(required_fields)
  THEN [raised |-> FALSE, missing_fields |-> missing_fields]
  ELSE LET key == required_fields[i][1]
           label == required_fields[i][2]
           value == required_fields[i][3]
           is_signature == key \in KeysContainingSignature
       IN IF is_signature /\ value.kind # "canvas"
          THEN [raised |-> TRUE, missing_fields |-> missing_fields]
          ELSE LET is_missing ==
                     IF is_signature
                     THEN ~is_signature_present(value.image_data)
                     ELSE ~Truthy(value)
               IN ValidateFrom(required_fields, i + 1,
                               IF is_missing
                               THEN Append(missing_fields, <<key, label>>)
                               ELSE missing_fields)

\* the result: the ordered (key, label) items of the missing_fields dict, or
\* an exception
validate_form(required_fields) == ValidateFrom(required_fields, 1, <<>>)

\* list(missing_fields.keys())
Keys(missing_fields) == [i \in 1..Len(missing_fields) |-> missing_fields[i][1]]

(* ---------------------------- serialization ---------------------------- *)
Digit(n) == <<"0", "1", "2", "3", "4", "5", "6", "7", "8", "9">>[n + 1]

Pad2(n) == Digit((n \div 10) % 10) \o Digit(n % 10)

Pad4(n) == Pad2(n \div 100) \o Pad2(n % 100)

\* datetime.date.isoformat()
isoformat(ymd) == Pad4(ymd[1]) \o "-" \o Pad2(ymd[2]) \o "-" \o Pad2(ymd[3])

Pad6(n) == Pad2(n \div 10000) \o Pad4(n % 10000)

\* datetime.datetime.isoformat(sep): the microseconds are written only when
\* they are not zero
datetime_isoformat(t, sep) ==
  isoformat(t) \o sep \o Pad2(t[4]) \o ":" \o Pad2(t[5]) \o ":" \o Pad2(t[6])
    \o (IF t[7] # 0 THEN "." \o Pad6(t[7]) ELSE "")

\* variant: a datetime is left as it is
serialize_value_dates_only(val) ==
  IF val.kind = "date" THEN Str(isoformat(val.ymd)) ELSE val

serialize_value(val) ==
  CASE val.kind = "date" -> Str(isoformat(val.ymd))
    [] val.kind = "datetime" -> Str(datetime_isoformat(val.ymd, "T"))
    [] OTHER -> val

\* str(value), as used by the f-strings and by drawString
PyStr(value) ==
  CASE value.kind = "str" -> value.s
    [] value.kind = "bool" -> IF value.b THEN "True" ELSE "False"
    [] value.kind = "date" -> isoformat(value.ymd)
    [] value.kind = "datetime" -> datetime_isoformat(value.ymd, " ")
    [] OTHER -> "<CanvasResult>"

\* data.get(key, "")
DataGet(data, key) == IF key \in DOMAIN data THEN data[key] ELSE Str("")

(* ------------------------------ spreadsheet ---------------------------- *)
Worksheets == {"Incident Reports", "Pay Exception Forms"}

\* the row save_to_gsheet builds from data and columns
SheetRow(data, columns) ==
  [i \in 1..Len(columns) |-> serialize_value(DataGet(data, columns[i]))]

\* variant: the row is appended twice
save_to_gsheet_twice(book, data, worksheet_name, columns) ==
  [book EXCEPT ![worksheet_name] =
     Append(Append(@, SheetRow(data, columns)), SheetRow(data, columns))]

\* variant: a row equal to one already in the worksheet is not appended
save_to_gsheet_unless_present(book, data, worksheet_name, columns) ==
  IF \E i \in DOMAIN book[worksheet_name] :
       book[worksheet_name][i] = SheetRow(data, columns)
  THEN book
  ELSE [book EXCEPT ![worksheet_name] = Append(@, SheetRow(data, columns))]

\* sheet.append_row(row) on the named worksheet
save_to_gsheet(book, data, worksheet_name, columns) ==
  [book EXCEPT ![worksheet_name] = Append(@, SheetRow(data, columns))]

\* the keys of a PDF field list, in order
FieldKeys(field_list) == [i \in 1..Len(field_list) |-> field_list[i][2]]

(* ------------------------------ word wrap ------------------------------ *)
\* a text given glyph by glyph: a narrow glyph, a wide glyph, the blank and
\* the line break
Glyphs == {"i", "W", " ", "\n"}

\* the str whose characters are the glyphs of chars
Text(chars) == [kind |-> "text", s |-> chars, b |-> FALSE, ymd |-> <<>>, image_data |-> NoneImage]

\* str(value), glyph by glyph; a str that is known only as a whole is one
\* glyph
StrChars(value) ==
  IF value.kind = "text" THEN value.s
  ELSE IF PyStr(value) = "" THEN <<>>
  ELSE <<PyStr(value)>>

\* stringWidth of a glyph, in points: a glyph stands for a run of
\* characters of that width, so that a text of few glyphs is wider than the
\* wrap width of 450
GlyphWidth(glyph) ==
  CASE glyph = "i" -> 100
    [] glyph = " " -> 100
    [] OTHER -> 300

\* pdfmetrics.stringWidth(chars, fontName, fontSize)
RECURSIVE stringWidth(_)
stringWidth(chars) ==
  IF chars = <<>> THEN 0
  ELSE GlyphWidth(Head(chars)) + stringWidth(Tail(chars))

\* str.split(sep) and str.split(): the parts between the separators, the
\* empty parts included (keep_empty) or left out
RECURSIVE SplitFrom(_, _, _, _, _)
SplitFrom(chars, sep, keep_empty, part, i) ==
  IF i > Len(chars)
  THEN IF keep_empty \/ part # <<>> THEN <<part>> ELSE <<>>
  ELSE IF chars[i] = sep
  THEN (IF keep_empty \/ part # <<>> THEN <<part>> ELSE <<>>)
         \o SplitFrom(chars, sep, keep_empty, <<>>, i + 1)
  ELSE SplitFrom(chars, sep, keep_empty, Append(part, chars[i]), i + 1)

Split(chars, sep, keep_empty) == SplitFrom(chars, sep, keep_empty, <<>>, 1)

\* ' '.join(words)
RECURSIVE Join(_)
Join(words) ==
  IF words = <<>> THEN <<>>
  ELSE IF Len(words) = 1 THEN words[1]
  ELSE words[1] \o <<" ">> \o Join(Tail(words))

\* reportlab's _simpleSplit(txt, mW, SW): the words of txt are put on a
\* line as long as they fit into mW; a word wider than mW is a line of its
\* own.  O holds the words of the line being filled, w their width, L the
\* lines that are full.
RECURSIVE SimpleSplitFrom(_, _, _, _, _, _)
SimpleSplitFrom(words, mW, O, w, L, i) ==
  IF i > Len(words)
  THEN IF O # <<>> THEN Append(L, Join(O)) ELSE L
  ELSE LET lt == stringWidth(words[i])
           ws == stringWidth(<<" ">>)
       IN IF w + ws + lt <= mW \/ O = <<>>
          THEN SimpleSplitFrom(words, mW, Append(O, words[i]), w + ws + lt, L, i + 1)
          ELSE SimpleSplitFrom(words, mW, <<words[i]>>, lt, Append(L, Join(O)), i + 1)

\* reportlab's simpleSplit(text, fontName, fontSize, maxWidth): every line
\* of the text (split at the line breaks) is wrapped
RECURSIVE SimpleSplitLines(_, _, _)
SimpleSplitLines(lines, maxWidth, i) ==
  IF i > Len(lines) THEN <<>>
  ELSE SimpleSplitFrom(Split(lines[i], " ", FALSE), maxWidth, <<>>,
                       0 - stringWidth(<<" ">>), <<>>, 1)
         \o SimpleSplitLines(lines, maxWidth, i + 1)

simpleSplit(chars, maxWidth) ==
  SimpleSplitLines(Split(chars, "\n", TRUE), maxWidth, 1)

(* -------------------------------- canvas ------------------------------- *)
\* the page size reportlab calls letter: (width, height) in points
letter == <<612, 792>>

\* a reportlab canvas: the draw operations so far, the current page and the
\* current font
NewCanvas == [ops |-> <<>>, page |-> 1, font |-> <<"Helvetica", 12>>]

setFont(c, name, size) == [c EXCEPT !.font = <<name, size>>]

\* a draw operation at (x, y) on the current page; a text is given as a
\* string or glyph by glyph
DrawOp(c, kind, x, y, text, chars, width, height) ==
  [c EXCEPT !.ops = Append(@, [kind |-> kind, text |-> text, chars |-> chars,
                               font |-> c.font, x |-> x, y |-> y,
                               page |-> c.page,
                               width |-> width, height |-> height])]

drawString(c, x, y, text) == DrawOp(c, "drawString", x, y, text, <<>>, 0, 0)

drawChars(c, x, y, chars) == DrawOp(c, "drawString", x, y, "", chars, 0, 0)

drawCentredString(c, x, y, text) ==
  DrawOp(c, "drawCentredString", x, y, text, <<>>, 0, 0)

line(c, x1, y1, x2, y2) == DrawOp(c, "line", x1, y1, "", <<>>, x2 - x1, y2 - y1)

drawImage(c, x, y, width, height) ==
  DrawOp(c, "drawImage", x, y, "", <<>>, width, height)

\* showPage ends the page; the next page starts with the initial font
showPage(c) == [c EXCEPT !.page = @ + 1, !.font = <<"Helvetica", 12>>]

\* the loop of draw_wrapped_text: one drawString per line, 14 points apart
RECURSIVE DrawLines(_, _, _, _, _, _)
DrawLines(c, lines, x, y, leading, i) ==
  IF i > Len(lines) THEN [c |-> c, y |-> y]
  ELSE DrawLines(drawChars(c, x, y, lines[i]), lines, x, y - leading, leading, i + 1)

\* variant: the last line of the wrapped text is not drawn
draw_wrapped_text_dropping_last(c, text, x, y, max_width) ==
  LET lines == simpleSplit(StrChars(text), max_width)
  IN DrawLines(c, SubSeq(lines, 1, Len(lines) - 1), x, y, 14, 1)

\* draw_wrapped_text(c, text, x, y, max_width) with the default font
\* Helvetica 12 and leading 14; gives the canvas and the returned y
draw_wrapped_text(c, text, x, y, max_width) ==
  DrawLines(c, simpleSplit(StrChars(text), max_width), x, y, 14, 1)

(* --------------------------------- PDF --------------------------------- *)
\* None, passed for a signature that is not given
NoneValue == [kind |-> "none", s |-> "", b |-> FALSE, ymd |-> <<>>, image_data |-> NoneImage]

\* the text of a value in the document
FieldText(value) == IF value.kind = "text" THEN value.s ELSE PyStr(value)

wrapped_text_fields ==
  {"explanation_of_incident", "reason_for_non_immediate_report",
   "incident_type_other", "pay_explanation", "traffic_location"}

\* the image process_signature_img makes of the canvas: None when the
\* canvas has no image data
process_signature_img(signature_canvas) == signature_canvas.image_data

\* the body of the loop over field_list, before the page break test: the
\* label, and the value beside it or wrapped below it; st holds the canvas
\* and y
DrawField(st, data, label, key) ==
  LET value == DataGet(data, key)
      labelled == drawString(setFont(st.c, "Helvetica-Bold", 12),
                             72, st.y, label \o ":")
  IN IF key \in wrapped_text_fields
     THEN LET wrapped == draw_wrapped_text(setFont(labelled, "Helvetica", 12),
                                           value, 90, st.y - 16, 450)
          IN [c |-> wrapped.c, y |-> wrapped.y - 10]
     ELSE [c |-> drawString(setFont(labelled, "Helvetica", 12),
                            250, st.y, PyStr(value)),
           y |-> st.y - 20]

\* variant: no new page is ever started
NewPageIfBelow_never(st, limit) == st

\* "if y < limit: c.showPage(); y = height - 72; c.setFont(...)"
NewPageIfBelow(st, limit) ==
  IF st.y < limit
  THEN [c |-> setFont(showPage(st.c), "Helvetica", 14), y |-> letter[2] - 72]
  ELSE st

\* the loop over field_list, from entry i on (next is the state after
\* entry i)
RECURSIVE DrawFields(_, _, _, _)
DrawFields(st, data, field_list, i) ==
  IF i > Len(field_list) THEN st
  ELSE CHOOSE end \in
         {DrawFields(next, data, field_list, i + 1) :
            next \in {NewPageIfBelow(
                        DrawField(st, data, field_list[i][1], field_list[i][2]),
                        100)}} : TRUE

\* one signature: the label and, when the canvas has image data, the image
\* of pdf_sig_width x pdf_sig_height 15 points below it; y ends gap points
\* below the image
DrawSignature(st, signature_img, label, gap) ==
  IF signature_img.kind = "none" THEN st
  ELSE LET pdf_sig_width == 400
           pdf_sig_height == (pdf_sig_width * 150) \div 600
           labelled == drawString(setFont(st.c, "Helvetica-Bold", 12),
                                  72, st.y, label)
           image_bottom_y == st.y - 15 - pdf_sig_height
       IN IF ~process_signature_img(signature_img).is_none
          THEN [c |-> drawImage(labelled, 72, image_bottom_y,
                                pdf_sig_width, pdf_sig_height),
                y |-> image_bottom_y - gap]
          ELSE [c |-> labelled, y |-> st.y]

\* variant: the signature block asks for the room of a field only
DrawSignatures_without_reserve(st, operator_signature_img, supervisor_signature_img) ==
  IF operator_signature_img.kind = "none" /\ supervisor_signature_img.kind = "none"
  THEN st
  ELSE DrawSignature(
         DrawSignature(NewPageIfBelow(st, 100),
                       operator_signature_img, "Operator Signature:", 30),
         supervisor_signature_img, "Supervisor Signature:", 3)

\* the signature block
DrawSignatures(st, operator_signature_img, supervisor_signature_img) ==
  IF operator_signature_img.kind = "none" /\ supervisor_signature_img.kind = "none"
  THEN st
  ELSE DrawSignature(
         DrawSignature(NewPageIfBelow(st, 350),
                       operator_signature_img, "Operator Signature:", 30),
         supervisor_signature_img, "Supervisor Signature:", 3)

\* the canvas after the title and the line under it, and y of the first
\* field
DrawTitle(pdf_title) ==
  LET titled == drawCentredString(setFont(NewCanvas, "Helvetica-Bold", 20),
                                  letter[1] \div 2, letter[2] - 50, pdf_title)
      y == letter[2] - 80
  IN [c |-> setFont(line(titled, 72, y, letter[1] - 72, y), "Helvetica", 14),
      y |-> y - 24]

\* what save_submission_pdf draws: the draw operations and the number of
\* pages, and how far the operations, the pages and y had come when the
\* fields were drawn
LayoutOf(fields, signed) ==
  [ops |-> signed.c.ops, pages |-> signed.c.page, y |-> signed.y,
   field_ops |-> Len(fields.c.ops), field_pages |-> fields.c.page,
   field_y |-> fields.y]

PdfLayout(data, field_list, pdf_title, operator_signature_img, supervisor_signature_img) ==
  LET fields == DrawFields(DrawTitle(pdf_title), data, field_list, 1)
  IN LayoutOf(fields,
              DrawSignatures(fields, operator_signature_img,
                             supervisor_signature_img))

\* the document save_submission_pdf writes: the title, one (label, text)
\* pair per entry of field_list in order, and the signature labels
PdfDocument(data, field_list, pdf_title, operator_signature_img, supervisor_signature_img) ==
  [title |-> pdf_title,
   fields |-> [i \in 1..Len(field_list) |->
                 <<field_list[i][1], field_list[i][2],
                   FieldText(DataGet(data, field_list[i][2]))>>],
   signatures |-> (IF operator_signature_img.kind = "canvas"
                   THEN <<"Operator Signature:">> ELSE <<>>)
                  \o (IF supervisor_signature_img.kind = "canvas"
                      THEN <<"Supervisor Signature:">> ELSE <<>>)]

\* c.save() writes (or overwrites) the file called filename
save_submission_pdf(files, data, field_list, pdf_title, filename, operator_signature_img, supervisor_signature_img) ==
  {f \in files : f.filename # filename}
    \cup {[filename |-> filename,
           pdf |-> PdfDocument(data, field_list, pdf_title,
                               operator_signature_img, supervisor_signature_img)]}

(* -------------------------------- email -------------------------------- *)
\* what send_pdf_email finds: the recipient and credential secrets, the
\* token request (answered with a token, answered with an error, or failing
\* with an exception), the PDF file and the answer of the Graph API
AllMailEnvs ==
  [to_email : BOOLEAN, credentials : BOOLEAN,
   access_token : {"token", "error", "raises"},
   file : BOOLEAN, post : {"2xx", "HTTPError", "Exception"}]

\* one environment for each way through send_pdf_email: what is not reached
\* is in order
MailEnvs ==
  {env \in AllMailEnvs :
     /\ ~env.to_email => env.credentials
     /\ ~(env.to_email /\ env.credentials) => env.access_token = "token"
     /\ ~(env.to_email /\ env.credentials /\ env.access_token = "token")
          => env.file
     /\ ~(env.to_email /\ env.credentials /\ env.access_token = "token"
            /\ env.file)
          => env.post = "2xx"}

MailResult(raised, success, error, read_file, posted) ==
  [raised |-> raised, success |-> success, error |-> error,
   read_file |-> read_file, posted |-> posted]

\* variant: the answer to the token request is not examined
send_pdf_email_without_token_check(env) ==
  IF ~env.to_email
  THEN MailResult(FALSE, FALSE, "Recipient email address (to_emails) is not set correctly in secrets.", FALSE, FALSE)
  ELSE IF ~env.credentials
  THEN MailResult(FALSE, FALSE, "Azure App credentials are not set correctly in secrets.", FALSE, FALSE)
  ELSE IF env.access_token = "raises"
  THEN MailResult(TRUE, FALSE, "acquire_token_for_client", FALSE, FALSE)
  ELSE IF ~env.file
  THEN MailResult(TRUE, FALSE, "open", FALSE, FALSE)
  ELSE IF env.post = "2xx"
  THEN MailResult(FALSE, TRUE, "", TRUE, TRUE)
  ELSE IF env.post = "HTTPError"
  THEN MailResult(FALSE, FALSE, "API Error", TRUE, TRUE)
  ELSE MailResult(FALSE, FALSE, "An unexpected error occurred", TRUE, TRUE)

\* the outcome of send_pdf_email: the returned pair (success, error), with
\* "" for None, or an exception that leaves the function (raised)
send_pdf_email(env) ==
  IF ~env.to_email
  THEN MailResult(FALSE, FALSE, "Recipient email address (to_emails) is not set correctly in secrets.", FALSE, FALSE)
  ELSE IF ~env.credentials
  THEN MailResult(FALSE, FALSE, "Azure App credentials are not set correctly in secrets.", FALSE, FALSE)
  ELSE IF env.access_token = "raises"
  THEN MailResult(TRUE, FALSE, "acquire_token_for_client", FALSE, FALSE)
  ELSE IF env.access_token = "error"
  THEN MailResult(FALSE, FALSE, "Failed to acquire access token", FALSE, FALSE)
  ELSE IF ~env.file
  THEN MailResult(TRUE, FALSE, "open", FALSE, FALSE)
  ELSE IF env.post = "2xx"
  THEN MailResult(FALSE, TRUE, "", TRUE, TRUE)
  ELSE IF env.post = "HTTPError"
  THEN MailResult(FALSE, FALSE, "API Error", TRUE, TRUE)
  ELSE MailResult(FALSE, FALSE, "An unexpected error occurred", TRUE, TRUE)

(* ---------------------------- session state ---------------------------- *)
\* st.session_state.get(key, default)
Get(key, default) ==
  IF key \in DOMAIN session_state THEN session_state[key] ELSE default

MissingKey(form) == "missing_" \o form \o "_fields"

SubmittedKey(form) == form \o "_submitted"

DataKey(form) ==
  IF form = "incident" THEN "incident_form_data" ELSE "pay_form_data"

\* the message display_submit_button_error puts above the submit button:
\* whether it is shown, and the labels it lists
display_submit_button_error(form_type, required_fields) ==
  LET missing_keys == Get(MissingKey(form_type), <<>>)
      InRequired(key) ==
        \E i \in DOMAIN required_fields : required_fields[i][1] = key
      Label(key) ==
        required_fields[CHOOSE i \in DOMAIN required_fields :
                          required_fields[i][1] = key][2]
      known == SelectSeq(missing_keys, InRequired)
  IN [shown |-> missing_keys # <<>>,
      missing_labels |-> [i \in 1..Len(known) |-> Label(known[i])]]

(* --------------------------- submit handlers --------------------------- *)
Forms == {"incident", "pay_exception"}

Worksheet(form) ==
  IF form = "incident" THEN "Incident Reports" ELSE "Pay Exception Forms"

PdfTitle(form) ==
  IF form = "incident" THEN "Operator Incident Report"
  ELSE "Operator Pay Exception Form"

Columns(form) == IF form = "incident" THEN incident_columns ELSE pay_columns

FieldList(form) ==
  IF form = "incident" THEN incident_field_list ELSE pay_field_list

\* the widget values the form function reads for the input in
Widgets(form, in) ==
  IF form = "incident" THEN IncidentWidgets(in.empty, in.op, in.sup, in.brief)
  ELSE PayWidgets(in.empty, in.op, in.sup)

RequiredFields(form, w) ==
  IF form = "incident" THEN incident_required_fields(w)
  ELSE pay_required_fields(w)

Data(form, w) ==
  IF form = "incident" THEN incident_form_data(w) ELSE pay_form_data(w)

OperatorSignature(form, w) ==
  IF form = "incident" THEN w["operator_signature"]
  ELSE w["pay_operator_signature"]

SupervisorSignature(form, w) ==
  IF form = "incident" THEN w["supervisor_signature"]
  ELSE w["pay_supervisor_signature"]

\* variant: the incident file name leaves out the brief number
Filename_without_brief(form, data) ==
  IF form = "incident"
  THEN "incident_" \o PyStr(data["operator_name"]) \o "_" \o PyStr(data["date"]) \o ".pdf"
  ELSE "pay_exception_" \o PyStr(data["name"]) \o "_" \o PyStr(data["date"]) \o ".pdf"

\* the f-string that names the PDF file
Filename(form, data) ==
  IF form = "incident"
  THEN "incident_" \o PyStr(data["operator_name"]) \o "_" \o PyStr(data["date"])
         \o "_for_brief_" \o PyStr(data["brief"]) \o ".pdf"
  ELSE "pay_exception_" \o PyStr(data["name"]) \o "_" \o PyStr(data["date"]) \o ".pdf"

Step(name, ok) == [step |-> name, ok |-> ok]

\* 1. the try block around save_to_gsheet
GsheetStep(st, form, data, gs_ok) ==
  [st EXCEPT
     !.sheets = IF gs_ok
                THEN save_to_gsheet(@, data, Worksheet(form), Columns(form))
                ELSE @,
     !.worksheet = Worksheet(form),
     !.columns = Columns(form),
     !.trace = Append(@, Step("gsheet", gs_ok)),
     !.errors = IF gs_ok THEN @ ELSE Append(@, "Failed to save to Google Sheet")]

\* 2. the try block around save_submission_pdf; the incident form reports a
\* failure twice; filename is None after a failure
PdfStep(st, form, w, data, pdf_ok) ==
  [st EXCEPT
     !.pdf_files = IF pdf_ok
                   THEN save_submission_pdf(@, data, FieldList(form), PdfTitle(form),
                                            Filename(form, data),
                                            OperatorSignature(form, w),
                                            SupervisorSignature(form, w))
                   ELSE @,
     !.field_list = FieldList(form),
     !.filename = IF pdf_ok THEN Filename(form, data) ELSE "",
     !.trace = Append(@, Step("pdf", pdf_ok)),
     !.errors = IF pdf_ok THEN @
                ELSE IF form = "incident"
                THEN @ \o <<"Failed to generate PDF", "Failed to generate PDF">>
                ELSE Append(@, "Failed to generate PDF")]

\* variant: the email is sent whether or not a PDF file was written
EmailStep_without_filename_test(st, env) ==
  LET mail == send_pdf_email(env)
  IN [st EXCEPT
        !.email_attempts = @ + 1,
        !.trace = Append(@, Step("email", mail.success)),
        !.errors = IF mail.raised
                   THEN Append(@, "An exception occurred while trying to send email")
                   ELSE IF ~mail.success
                   THEN @ \o <<mail.error, "Failed to send email">>
                   ELSE @]

\* 3. "if filename:" and the try block around send_pdf_email
EmailStep(st, env) ==
  IF st.filename = "" THEN st
  ELSE LET mail == send_pdf_email(env)
       IN [st EXCEPT
             !.email_attempts = @ + 1,
             !.trace = Append(@, Step("email", mail.success)),
             !.errors = IF mail.raised
                        THEN Append(@, "An exception occurred while trying to send email")
                        ELSE IF ~mail.success
                        THEN @ \o <<mail.error, "Failed to send email">>
                        ELSE @]

\* the end of the handler: the form data is stored and the flag is set
StoreStep(st, form, data) ==
  [st EXCEPT
     !.session_state = (SubmittedKey(form) :> TRUE) @@ (DataKey(form) :> data) @@ @,
     !.trace = Append(@, Step("store", TRUE))]

\* the state a handler starts from, after a validation that found nothing
\* missing: the list of missing fields is emptied
Validated(form, session, book, files, attempts) ==
  [session_state |->
     (IF form = "incident" THEN ("submit_error_incident" :> "") ELSE <<>>)
       @@ (MissingKey(form) :> <<>>) @@ session,
   sheets |-> book, pdf_files |-> files, email_attempts |-> attempts,
   worksheet |-> "", columns |-> <<>>, field_list |-> <<>>, filename |-> "",
   trace |-> <<Step("validate", TRUE)>>, errors |-> <<>>]

\* variant: the PDF is rendered before the row is appended
AfterValidation_pdf_first(st, form, w, data, gs_ok, pdf_ok, env) ==
  StoreStep(
    EmailStep(
      GsheetStep(
        PdfStep(st, form, w, data, pdf_ok),
        form, data, gs_ok),
      env),
    form, data)

\* variant: a spreadsheet failure ends the handler
AfterValidation_stop_on_sheet_failure(st, form, w, data, gs_ok, pdf_ok, env) ==
  IF ~gs_ok THEN StoreStep(GsheetStep(st, form, data, gs_ok), form, data)
  ELSE StoreStep(
         EmailStep(
           PdfStep(
             GsheetStep(st, form, data, gs_ok),
             form, w, data, pdf_ok),
           env),
         form, data)

\* variant: an exception raised by send_pdf_email is not caught, so the end
\* of the handler is not reached
AfterValidation_email_uncaught(st, form, w, data, gs_ok, pdf_ok, env) ==
  IF pdf_ok /\ send_pdf_email(env).raised
  THEN EmailStep(
         PdfStep(
           GsheetStep(st, form, data, gs_ok),
           form, w, data, pdf_ok),
         env)
  ELSE StoreStep(
         EmailStep(
           PdfStep(
             GsheetStep(st, form, data, gs_ok),
             form, w, data, pdf_ok),
           env),
         form, data)

\* the code that follows a successful validation, in program order
AfterValidation(st, form, w, data, gs_ok, pdf_ok, env) ==
  StoreStep(
    EmailStep(
      PdfStep(
        GsheetStep(st, form, data, gs_ok),
        form, w, data, pdf_ok),
      env),
    form, data)

(* ------------------------------- state --------------------------------- *)
\* the record of the submit processing of the latest script run
NoRun ==
  [form |-> "none", input |-> Input({}, NoneImage, NoneImage, ""),
   valid |-> FALSE, escaped |-> FALSE,
   worksheet |-> "", columns |-> <<>>, field_list |-> <<>>, filename |-> "",
   trace |-> <<>>, errors |-> <<>>, rows |-> 0, emails |-> 0]

TotalRows(book) == Len(book["Incident Reports"]) + Len(book["Pay Exception Forms"])

\* no function of the program was called on its own
NoCall == [fn |-> "none"]

Init ==
  /\ session_state = [form_key |-> 0, page |-> "home"]
  /\ sheets = [n \in Worksheets |-> <<>>]
  /\ pdf_files = {}
  /\ email_attempts = 0
  /\ run = NoRun
  /\ call = NoCall

(* ------------------------------- actions ------------------------------- *)
\* a home page button is pressed
OpenForm ==
  \E form \in Forms :
    /\ session_state["page"] = "home"
    /\ session_state' = [session_state EXCEPT !["page"] = form]
    /\ run' = NoRun
    /\ UNCHANGED <<sheets, pdf_files, email_attempts, call>>

\* variant: Return Home leaves the submitted flag as it is
ReturnHome_keeping_flag ==
  \E form \in Forms :
    /\ session_state["page"] = form
    /\ session_state' = [session_state EXCEPT !["page"] = "home"]
    /\ run' = NoRun
    /\ UNCHANGED <<sheets, pdf_files, email_attempts, call>>

\* "Return Home" is pressed on a form page
ReturnHome ==
  \E form \in Forms :
    /\ session_state["page"] = form
    /\ session_state' =
         (SubmittedKey(form) :> FALSE) @@ ("page" :> "home") @@ session_state
    /\ run' = NoRun
    /\ UNCHANGED <<sheets, pdf_files, email_attempts, call>>

\* variant: Clear keeps the other session entries
Clear_keeping_entries ==
  \E form \in Forms :
    /\ session_state["page"] = form
    /\ session_state["form_key"] < MaxFormKey
    /\ session_state' =
         (SubmittedKey(form) :> FALSE)
           @@ [session_state EXCEPT !["form_key"] = @ + 1]
    /\ run' = NoRun
    /\ UNCHANGED <<sheets, pdf_files, email_attempts, call>>

\* "Clear" is pressed on a form page, before or after a submission
Clear ==
  \E form \in Forms :
    /\ session_state["page"] = form
    /\ session_state["form_key"] < MaxFormKey
    /\ session_state' =
         (SubmittedKey(form) :> FALSE)
           @@ [k \in {"form_key", "page"} |->
                 IF k = "form_key" THEN session_state[k] + 1 ELSE session_state[k]]
    /\ run' = NoRun
    /\ UNCHANGED <<sheets, pdf_files, email_attempts, call>>

\* validate_form raised: the exception leaves the script run
Escapes(form, in) ==
  /\ run' = [NoRun EXCEPT !.form = form, !.input = in, !.escaped = TRUE,
                          !.trace = <<Step("validate", FALSE)>>]
  /\ UNCHANGED <<session_state, sheets, pdf_files, email_attempts, call>>

\* validate_form found missing fields: they are recorded and st.rerun() ends
\* the script run
Rejects(form, in, missing_fields) ==
  /\ session_state' = (MissingKey(form) :> Keys(missing_fields)) @@ session_state
  /\ run' = [NoRun EXCEPT !.form = form, !.input = in,
                          !.trace = <<Step("validate", FALSE)>>]
  /\ UNCHANGED <<sheets, pdf_files, email_attempts, call>>

\* validate_form found nothing missing: the three steps run and the
\* submission is stored
Accepts(form, in, gs_ok, pdf_ok, env) ==
  \E w \in {Widgets(form, in)} :
  \E data \in {Data(form, w)} :
  \E st \in {AfterValidation(
                Validated(form, session_state, sheets, pdf_files, email_attempts),
                form, w, data, gs_ok, pdf_ok, env)} :
     /\ session_state' = st.session_state
     /\ sheets' = st.sheets
     /\ pdf_files' = st.pdf_files
     /\ email_attempts' = st.email_attempts
     /\ run' = [form |-> form, input |-> in, valid |-> TRUE, escaped |-> FALSE,
                worksheet |-> st.worksheet,
                columns |-> st.columns, field_list |-> st.field_list,
                filename |-> st.filename, trace |-> st.trace,
                errors |-> st.errors,
                rows |-> TotalRows(st.sheets) - TotalRows(sheets),
                emails |-> st.email_attempts - email_attempts]
     /\ UNCHANGED call

\* variant: the form stays usable after a submission
FormShown_ignoring_submitted(form) ==
  /\ session_state["page"] = form
  /\ TotalRows(sheets) < MaxRows
  /\ email_attempts < MaxEmails

\* the form is shown (the page is the form's and nothing was submitted yet)
FormShown(form) ==
  /\ session_state["page"] = form
  /\ ~Get(SubmittedKey(form), FALSE)
  /\ TotalRows(sheets) < MaxRows
  /\ email_attempts < MaxEmails

\* the "if submitted:" block of a form, run with the widget values of in
SubmitHandler(form, in) ==
  \E v \in {validate_form(RequiredFields(form, Widgets(form, in)))} :
    IF v.raised THEN Escapes(form, in)
    ELSE IF v.missing_fields # <<>>
    THEN Rejects(form, in, v.missing_fields)
    ELSE \E gs_ok \in BOOLEAN, pdf_ok \in BOOLEAN, env \in MailEnvs :
           Accepts(form, in, gs_ok, pdf_ok, env)

\* "Submit Incident Report" is pressed
SubmitIncident ==
  /\ FormShown("incident")
  /\ \E in \in IncidentInputs : SubmitHandler("incident", in)

\* "Submit Pay Exception Form" is pressed
SubmitPayException ==
  /\ FormShown("pay_exception")
  /\ \E in \in PayInputs : SubmitHandler("pay_exception", in)

Next ==
  \/ OpenForm
  \/ ReturnHome
  \/ Clear
  \/ SubmitIncident
  \/ SubmitPayException

Spec == Init /\ [][Next]_vars

\* "Submit Incident Report" is pressed on a completely filled form
SubmitCompleteIncident ==
  /\ FormShown("incident")
  /\ \E in \in CompleteIncidentInputs : SubmitHandler("incident", in)

\* sessions in which every incident report is filled completely, and the
\* Brief # differs from report to report or stays the same
CompleteNext ==
  \/ OpenForm
  \/ ReturnHome
  \/ Clear
  \/ SubmitCompleteIncident

CompleteSpec == Init /\ [][CompleteNext]_vars

(* ------------------- the functions called on their own ----------------- *)
\* longest column list of a save_to_gsheet call
MaxColumns == 2

\* the keys a column list names; "c" is never a key of the data
SheetKeys == {"a", "b", "c"}

\* the values of a data mapping: str, bool, date and datetime
SheetValues ==
  {Str(""), Str("x"), Bool(TRUE), Date(<<2026, 11, 5>>), Date(<<987, 1, 31>>),
   DateTime(<<2026, 11, 5, 9, 4, 0, 0>>),
   DateTime(<<1999, 12, 31, 23, 59, 58, 120>>)}

SheetData ==
  UNION {[keys -> SheetValues] : keys \in SUBSET (SheetKeys \ {"c"})}

SheetColumns == UNION {[1..n -> SheetKeys] : n \in 0..MaxColumns}

\* the workbook before the call: empty, or with a row in each worksheet
SheetBooks ==
  {[n \in Worksheets |-> <<>>],
   [n \in Worksheets |-> << <<Str(n)>> >>]}

CallInit ==
  /\ session_state = [form_key |-> 0, page |-> "home"]
  /\ sheets \in SheetBooks
  /\ pdf_files = {}
  /\ email_attempts = 0
  /\ run = NoRun
  /\ call = NoCall

\* save_to_gsheet(data, worksheet_name, columns) is called; the request to
\* the spreadsheet service is answered or fails
SaveToGsheetCall ==
  /\ call = NoCall
  /\ \E data \in SheetData, worksheet_name \in Worksheets,
        columns \in SheetColumns, gs_ok \in BOOLEAN :
       /\ sheets' = IF gs_ok
                    THEN save_to_gsheet(sheets, data, worksheet_name, columns)
                    ELSE sheets
       /\ call' = [fn |-> "save_to_gsheet", data |-> data,
                   worksheet_name |-> worksheet_name, columns |-> columns,
                   raised |-> ~gs_ok]
  /\ UNCHANGED <<session_state, pdf_files, email_attempts, run>>

\* send_pdf_email is called with a rendered PDF file
SendPdfEmailCall ==
  /\ call = NoCall
  /\ \E env \in AllMailEnvs :
       call' = [fn |-> "send_pdf_email", env |-> env,
                result |-> send_pdf_email(env)]
  /\ email_attempts' = email_attempts + 1
  /\ UNCHANGED <<session_state, sheets, pdf_files, run>>

\* longest text of a draw_wrapped_text call, in glyphs
MaxTextLen == 4

Texts == UNION {[1..n -> Glyphs] : n \in 0..MaxTextLen}

\* draw_wrapped_text is called as save_submission_pdf calls it, at the
\* first field of a page or at the lowest position of a field
DrawWrappedTextCall ==
  /\ call = NoCall
  /\ \E chars \in Texts, y \in {688 - 16, 100 - 16} :
       call' = [fn |-> "draw_wrapped_text", text |-> Text(chars),
                x |-> 90, y |-> y, max_width |-> 450,
                result |-> draw_wrapped_text(NewCanvas, Text(chars), 90, y, 450)]
  /\ UNCHANGED <<session_state, sheets, pdf_files, email_attempts, run>>

\* most lines of a long text of a save_submission_pdf call
MaxParagraphs == 14

\* a text of n lines, each of one word
RECURSIVE Paragraphs(_)
Paragraphs(n) ==
  IF n = 1 THEN <<"W">> ELSE Paragraphs(n - 1) \o <<"\n", "W">>

\* the texts of the long-text fields
LayoutTexts == Texts \cup {Paragraphs(n) : n \in 1..MaxParagraphs}

\* the field lists: none, and those of the two forms
LayoutFieldLists == {<<>>, incident_field_list, pay_field_list}

\* a signature argument: not given, a canvas without image data, a signed
\* canvas
SignatureArgs == {NoneValue, Canvas(NoneImage), Canvas(Bitmap(<<0, 1>>))}

\* the data of a call: every long-text field holds chars, every other field
\* its own name
LayoutData(field_list, chars) ==
  [key \in Range(FieldKeys(field_list)) |->
     IF key \in wrapped_text_fields THEN Text(chars) ELSE Str(key)]

\* save_submission_pdf is called
SaveSubmissionPdfCall ==
  /\ call = NoCall
  /\ \E field_list \in LayoutFieldLists, chars \in LayoutTexts,
        operator_signature_img \in SignatureArgs,
        supervisor_signature_img \in SignatureArgs :
       \E data \in {LayoutData(field_list, chars)} :
         /\ call' = [fn |-> "save_submission_pdf", data |-> data,
                     field_list |-> field_list, pdf_title |-> "Report",
                     filename |-> "report.pdf",
                     operator_signature_img |-> operator_signature_img,
                     supervisor_signature_img |-> supervisor_signature_img,
                     layout |-> PdfLayout(data, field_list, "Report",
                                          operator_signature_img,
                                          supervisor_signature_img)]
         /\ pdf_files' = save_submission_pdf(pdf_files, data, field_list,
                            "Report", "report.pdf", operator_signature_img,
                            supervisor_signature_img)
  /\ UNCHANGED <<session_state, sheets, email_attempts, run>>

CallNext ==
  \/ SaveToGsheetCall
  \/ SendPdfEmailCall
  \/ DrawWrappedTextCall
  \/ SaveSubmissionPdfCall

CallSpec == CallInit /\ [][CallNext]_vars

(* ------------------------------ properties ----------------------------- *)
\* what the latest submit handler did
Attempted(name) == \E i \in DOMAIN run.trace : run.trace[i].step = name

Succeeded(name) ==
  \E i \in DOMAIN run.trace : run.trace[i].step = name /\ run.trace[i].ok

Failed(name) ==
  \E i \in DOMAIN run.trace : run.trace[i].step = name /\ ~run.trace[i].ok

Count(name) == Cardinality({i \in DOMAIN run.trace : run.trace[i].step = name})

Before(first, second) ==
  \A j \in DOMAIN run.trace :
    run.trace[j].step = second =>
      \E i \in 1..(j - 1) : run.trace[i].step = first

\* the widget values of the latest submit
RunWidgets == Widgets(run.form, run.input)

RequiredOf(form) == IF form = "incident" THEN IncidentRequired ELSE PayRequired

SignatureVars(form) ==
  IF form = "incident" THEN {"operator_signature", "supervisor_signature"}
  ELSE {"pay_operator_signature", "pay_supervisor_signature"}

\* a signature canvas contains ink: some pixel has alpha > 0
HasInk(value) ==
  /\ value.kind = "canvas"
  /\ ~value.image_data.is_none
  /\ \E p \in DOMAIN value.image_data.alpha : value.image_data.alpha[p] > 0

\* the required entry (key, label, variable) is missing from the widgets w
MissingEntry(form, entry, w) ==
  IF entry[3] \in SignatureVars(form) THEN ~HasInk(w[entry[3]])
  ELSE ~Truthy(w[entry[3]])

\* the keys of the required entries that are missing from the widgets w
ExpectedMissing(form, w) ==
  {entry[1] : entry \in {e \in Range(RequiredOf(form)) : MissingEntry(form, e, w)}}

\* every required field of the latest submit was filled and both signatures
\* were drawn
Complete ==
  /\ run.form \in Forms
  /\ ExpectedMissing(run.form, RunWidgets) = {}

\* C1: a row is appended, a PDF rendered or an email attempted in a submit
\* only if every required field was non-empty and both signatures contained
\* ink at that submit; a submit with a missing field does none of the three.
C1_StepsOnlyWhenComplete ==
  run.form \in Forms =>
    ((Attempted("gsheet") \/ Attempted("pdf") \/ Attempted("email")
        \/ run.rows > 0 \/ run.emails > 0 \/ run.filename # "")
       => Complete)

\* a submit with exactly one missing signature was rejected
C1_Witness ==
  /\ run.form = "incident"
  /\ run.input.empty = {}
  /\ HasInk(Canvas(run.input.op))
  /\ ~HasInk(Canvas(run.input.sup))
  /\ ~run.input.sup.is_none
  /\ ~Attempted("gsheet")

\* C2: validate_form returns a result for every required-field set, and the
\* result holds exactly the keys whose value is falsy or whose signature
\* bitmap is absent or without ink.
C2_ValidateFormExact ==
  run.form \in Forms =>
    LET v == validate_form(RequiredFields(run.form, RunWidgets))
    IN /\ ~v.raised
       /\ Range(Keys(v.missing_fields)) = ExpectedMissing(run.form, RunWidgets)

\* C3: a pay exception submit in which only the Explanation is empty records
\* exactly pay_explanation as the missing field, and writes no row, renders
\* no PDF and attempts no email.
C3_PayExplanationMissing ==
  (/\ run.form = "pay_exception"
   /\ ExpectedMissing("pay_exception", RunWidgets) = {"pay_explanation"})
    => /\ ~run.escaped
       /\ Get("missing_pay_exception_fields", <<>>) = <<"pay_explanation">>
       /\ ~Attempted("gsheet") /\ ~Attempted("pdf") /\ ~Attempted("email")

\* C4: a pay exception submit with every required field filled and both
\* signatures drawn passes validation, appends to "Pay Exception Forms",
\* renders the PDF, attempts one email and sets pay_exception_submitted.
C4_PayCompleteSubmitIsProcessed ==
  (run.form = "pay_exception" /\ Complete)
    => /\ run.valid
       /\ Count("gsheet") = 1 /\ run.worksheet = "Pay Exception Forms"
       /\ Count("pdf") = 1
       /\ (Succeeded("pdf") => Count("email") = 1)
       /\ Get("pay_exception_submitted", FALSE)

\* C5: within one submit the append attempt follows the validation, the PDF
\* render attempt follows the append attempt and the email attempt follows
\* the PDF render attempt.
C5_StepOrder ==
  /\ Before("validate", "gsheet")
  /\ Before("gsheet", "pdf")
  /\ Before("pdf", "email")
  /\ Attempted("gsheet") => run.trace[1] = Step("validate", TRUE)

\* a submit that went through all four steps
C5_Witness ==
  /\ run.form = "incident"
  /\ Attempted("validate") /\ Attempted("gsheet")
  /\ Attempted("pdf") /\ Attempted("email")

\* C6 as stated: in a valid submit a failed append does not block the PDF
\* render and a failed PDF render does not block the email send.
C6_FailureNeverBlocksNextStep ==
  run.valid =>
    /\ Failed("gsheet") => Attempted("pdf")
    /\ Failed("pdf") => Attempted("email")

\* C6 amended: in a submit that passed validation a failed append is
\* reported and the PDF render is still attempted; a failed PDF render is
\* reported and the email send is skipped: the email send is attempted
\* exactly when the PDF render succeeded.
C6_FailureBlocksOnlyEmail ==
  run.valid =>
    /\ Failed("gsheet") =>
         Attempted("pdf") /\ "Failed to save to Google Sheet" \in Range(run.errors)
    /\ Failed("pdf") =>
         ~Attempted("email") /\ "Failed to generate PDF" \in Range(run.errors)
    /\ Attempted("email") <=> Succeeded("pdf")

\* a valid submit whose append and whose PDF render both failed
C6_Witness ==
  /\ run.valid
  /\ Failed("gsheet")
  /\ Failed("pdf")
  /\ ~Attempted("email")

\* C7: in a valid incident submit every failure is reported, nothing escapes
\* the handler, each step is attempted at most once, and the handler ends by
\* storing the form data and setting incident_submitted.
C7_IncidentHandlerAlwaysCompletes ==
  (run.form = "incident" /\ run.valid) =>
    /\ ~run.escaped
    /\ Count("gsheet") = 1 /\ Count("pdf") = 1 /\ Count("email") <= 1
    /\ run.rows <= 1 /\ run.emails <= 1
    /\ Failed("gsheet") => "Failed to save to Google Sheet" \in Range(run.errors)
    /\ Failed("pdf") => "Failed to generate PDF" \in Range(run.errors)
    /\ Failed("email") =>
         \/ "Failed to send email" \in Range(run.errors)
         \/ "An exception occurred while trying to send email" \in Range(run.errors)
    /\ run.trace[Len(run.trace)] = Step("store", TRUE)
    /\ Get("incident_submitted", FALSE)
    /\ "incident_form_data" \in DOMAIN session_state
    /\ session_state["incident_form_data"] = incident_form_data(RunWidgets)

\* a valid incident submit whose append failed and whose email send raised
C7_Witness ==
  /\ run.form = "incident" /\ run.valid
  /\ Failed("gsheet")
  /\ "An exception occurred while trying to send email" \in Range(run.errors)
  /\ Get("incident_submitted", FALSE)

\* the PDF files called filename
FilesNamed(filename) == {f \in pdf_files : f.filename = filename}

\* C8: an incident submit with all required fields filled and both
\* signatures drawn has an empty missing-set; when the services do not fail
\* it appends exactly one row to "Incident Reports", produces exactly one
\* PDF titled "Operator Incident Report" and attempts exactly one email.
C8_CompleteIncidentSubmit ==
  (run.form = "incident" /\ Complete) =>
    /\ run.valid
    /\ session_state["missing_incident_fields"] = <<>>
    /\ Count("gsheet") = 1 /\ Count("pdf") = 1
    /\ run.worksheet = "Incident Reports"
    /\ Succeeded("gsheet") =>
         /\ run.rows = 1
         /\ Len(sheets["Incident Reports"]) >= 1
    /\ Succeeded("pdf") =>
         /\ Cardinality(FilesNamed(run.filename)) = 1
         /\ \A f \in FilesNamed(run.filename) :
              f.pdf.title = "Operator Incident Report"
         /\ Count("email") = 1 /\ run.emails = 1

\* a complete incident submit in which no service failed
C8_Witness ==
  /\ run.form = "incident" /\ Complete
  /\ Succeeded("gsheet") /\ Succeeded("pdf") /\ Succeeded("email")

\* the row appended by the latest submit
LastRow(worksheet_name) == sheets[worksheet_name][Len(sheets[worksheet_name])]

\* C9 as stated: the row appended for an incident submission has exactly 31
\* columns.
C9_IncidentRowHas31Columns ==
  (run.form = "incident" /\ Succeeded("gsheet")) =>
    Len(LastRow("Incident Reports")) = 31

\* C9 amended: the row appended for an incident submission has exactly 32
\* columns, the i-th being the serialized value of the i-th key of the
\* incident column list.
C9_IncidentRowHas32Columns ==
  (run.form = "incident" /\ Succeeded("gsheet")) =>
    /\ Len(LastRow("Incident Reports")) = 32
    /\ Len(run.columns) = 32
    /\ \A i \in 1..32 :
         LastRow("Incident Reports")[i] =
           serialize_value(session_state["incident_form_data"][run.columns[i]])
    /\ LastRow("Incident Reports")[1] = Str("2026-11-05")
    /\ LastRow("Incident Reports")[2] = Str("time")
    /\ LastRow("Incident Reports")[31] = Str("signed_sqm_name")
    /\ LastRow("Incident Reports")[32] = Str("2026-11-05")

\* an incident submission whose row was appended
C9_Witness ==
  /\ run.form = "incident"
  /\ Succeeded("gsheet")
  /\ Len(sheets["Incident Reports"]) >= 1

\* C10 as stated: the keys used as spreadsheet columns are, element by
\* element, the keys of the PDF field list, and all are keys of the data.
C10_ColumnsEqualFieldKeys ==
  (run.valid /\ Attempted("gsheet") /\ Attempted("pdf")) =>
    /\ run.columns = FieldKeys(run.field_list)
    /\ Range(run.columns) \subseteq DOMAIN session_state[DataKey(run.form)]

\* C10 amended: for each form the spreadsheet columns and the PDF field list
\* hold the same keys, each once, and every one of them is a key of the
\* submitted data; the pay exception lists are equal element by element, the
\* incident lists differ in the order of vehicle, operator_id, route, depot.
C10_ColumnsPermuteFieldKeys ==
  /\ pay_columns = FieldKeys(pay_field_list)
  /\ Range(pay_columns) = DOMAIN pay_form_data(PayWidgets({}, NoneImage, NoneImage))
  /\ (run.valid /\ Attempted("gsheet") /\ Attempted("pdf")) =>
       /\ Range(run.columns) = Range(FieldKeys(run.field_list))
       /\ Len(run.columns) = Cardinality(Range(run.columns))
       /\ Len(run.field_list) = Len(run.columns)
       /\ Range(run.columns) = DOMAIN session_state[DataKey(run.form)]
       /\ run.form = "incident" =>
            /\ \A i \in (1..32) \ (6..9) : run.columns[i] = run.field_list[i][2]
            /\ <<run.columns[6], run.columns[7], run.columns[8], run.columns[9]>>
                 = <<"operator_id", "depot", "vehicle", "route">>
            /\ <<run.field_list[6][2], run.field_list[7][2],
                 run.field_list[8][2], run.field_list[9][2]>>
                 = <<"vehicle", "operator_id", "route", "depot">>

\* a valid incident submit that appended its row and rendered its PDF
C10_Witness ==
  /\ run.form = "incident" /\ run.valid
  /\ Succeeded("gsheet") /\ Succeeded("pdf")
  /\ run.columns # <<>> /\ run.field_list # <<>>

\* the sequence old is an initial part of the sequence new
IsPrefix(old, new) ==
  /\ Len(old) <= Len(new)
  /\ \A i \in 1..Len(old) : new[i] = old[i]

\* C11: while a form's submitted flag is set no row is appended, no PDF is
\* written and no email is attempted (only Clear and Return Home lead on);
\* no step removes or changes a row appended earlier, and a step appends at
\* most one row.
C11_PersistedOnce ==
  [][/\ (\E form \in Forms : Get(SubmittedKey(form), FALSE))
          => /\ sheets' = sheets
             /\ pdf_files' = pdf_files
             /\ email_attempts' = email_attempts
     /\ \A n \in Worksheets : IsPrefix(sheets[n], sheets'[n])
     /\ TotalRows(sheets') <= TotalRows(sheets) + 1]_vars

\* a second submission was stored and the row of the first is still there
C11_Witness ==
  /\ Get("incident_submitted", FALSE)
  /\ Len(sheets["Incident Reports"]) = 2
  /\ email_attempts = 2

\* C12: nothing protects against a duplicate submission: a valid submit
\* whose row is already in the worksheet appends the row once more, and a
\* valid submit that rendered its PDF makes an email attempt however many
\* were made before.
C12_ResubmissionDuplicates ==
  [][run'.valid =>
       LET ws == run'.worksheet
           row == SheetRow(session_state'[DataKey(run'.form)], run'.columns)
       IN /\ (Succeeded("gsheet")' /\ row \in Range(sheets[ws]))
               => sheets'[ws] = Append(sheets[ws], row)
          /\ (Succeeded("pdf")' /\ email_attempts >= 1)
               => email_attempts' = email_attempts + 1]_vars

\* after Return Home or Clear the same data was submitted again: the
\* worksheet holds the row twice and two emails were attempted
C12_Witness ==
  /\ run.form = "incident" /\ run.valid
  /\ Len(sheets["Incident Reports"]) = 2
  /\ sheets["Incident Reports"][1] = sheets["Incident Reports"][2]
  /\ sheets["Incident Reports"][2] =
       SheetRow(session_state["incident_form_data"], incident_columns)
  /\ email_attempts = 2
  /\ session_state["form_key"] = 0
  /\ Get("incident_submitted", FALSE)

\* the labels of the required keys in the set keys
LabelsOf(form, keys) ==
  {entry[2] : entry \in {e \in Range(RequiredOf(form)) : e[1] \in keys}}

\* C13: after a submit with a missing required field or signature the
\* session's missing_<form>_fields list holds exactly the missing keys, each
\* once, and the message above the submit button of the following render
\* lists exactly their labels; after a submit with nothing missing the list
\* is empty and no message is shown.
C13_MissingFieldsReported ==
  run.form \in Forms =>
    LET expected == ExpectedMissing(run.form, RunWidgets)
        missing_keys == Get(MissingKey(run.form), <<>>)
        message == display_submit_button_error(
                     run.form, RequiredFields(run.form, RunWidgets))
    IN /\ expected # {} =>
            /\ Range(missing_keys) = expected
            /\ Len(missing_keys) = Cardinality(expected)
            /\ message.shown
            /\ Range(message.missing_labels) = LabelsOf(run.form, expected)
            /\ Len(message.missing_labels) = Cardinality(expected)
       /\ expected = {} =>
            /\ missing_keys = <<>>
            /\ ~message.shown

\* C13 restricted to the incident form
C13_IncidentMissingFieldsReported ==
  run.form = "incident" => C13_MissingFieldsReported

\* the names of the PDF files in files
Filenames(files) == {f.filename : f \in files}

\* C14 as stated: every valid submission whose rendering succeeds adds a PDF
\* file of its own and leaves the files of earlier submissions in place, so
\* n such submissions give n files.
C14_OneFilePerSubmission ==
  [][(run'.valid /\ Succeeded("pdf")') =>
       /\ Cardinality(pdf_files') = Cardinality(pdf_files) + 1
       /\ pdf_files \subseteq pdf_files']_vars

\* C14 amended: every valid submission whose rendering succeeds writes the
\* one file named from operator name, date and brief number; files with
\* another name stay as they are, a file of an earlier submission with the
\* same name is replaced, so there are as many files as distinct names.
C14_OneFilePerFilename ==
  [][(run'.valid /\ Succeeded("pdf")') =>
       /\ run'.form = "incident"
       /\ run'.filename =
            "incident_operator_name_2026-11-05_for_brief_"
              \o run'.input.brief \o ".pdf"
       /\ Cardinality({f \in pdf_files' : f.filename = run'.filename}) = 1
       /\ {f \in pdf_files' : f.filename # run'.filename}
            = {f \in pdf_files : f.filename # run'.filename}
       /\ Cardinality(pdf_files')
            = Cardinality(Filenames(pdf_files) \cup {run'.filename})]_vars

\* two submissions were rendered (each rendered submission attempts its
\* email) under the same file name, and one file exists
C14_Witness ==
  /\ run.valid /\ Succeeded("pdf")
  /\ email_attempts = 2
  /\ Cardinality(pdf_files) = 1

\* the ISO-8601 text of the dates and datetimes of SheetValues
Iso8601(val) ==
  CASE val = Date(<<2026, 11, 5>>) -> "2026-11-05"
    [] val = Date(<<987, 1, 31>>) -> "0987-01-31"
    [] val = DateTime(<<2026, 11, 5, 9, 4, 0, 0>>) -> "2026-11-05T09:04:00"
    [] val = DateTime(<<1999, 12, 31, 23, 59, 58, 120>>)
         -> "1999-12-31T23:59:58.000120"

\* C15: a save_to_gsheet call that returns appends exactly one row to the
\* named worksheet and leaves the other worksheet alone; the row has
\* len(columns) entries, the i-th being "" when columns[i] is not a key of
\* data, the ISO-8601 string of data[columns[i]] when that is a date or a
\* datetime, and data[columns[i]] itself otherwise.
C15_SaveToGsheetRow ==
  [][(call'.fn = "save_to_gsheet" /\ ~call'.raised) =>
       LET data == call'.data
           columns == call'.columns
           name == call'.worksheet_name
           row == sheets'[name][Len(sheets'[name])]
       IN /\ Len(sheets'[name]) = Len(sheets[name]) + 1
          /\ IsPrefix(sheets[name], sheets'[name])
          /\ \A n \in Worksheets \ {name} : sheets'[n] = sheets[n]
          /\ Len(row) = Len(columns)
          /\ \A i \in 1..Len(columns) :
               IF columns[i] \notin DOMAIN data THEN row[i] = Str("")
               ELSE IF data[columns[i]].kind \in {"date", "datetime"}
               THEN row[i] = Str(Iso8601(data[columns[i]]))
               ELSE row[i] = data[columns[i]]]_vars

\* a row of two entries was appended below an earlier row: a datetime with
\* microseconds, and a key that the data does not have
C15_Witness ==
  /\ call.fn = "save_to_gsheet" /\ ~call.raised
  /\ call.columns = <<"a", "c">>
  /\ DOMAIN call.data = {"a"}
  /\ call.data["a"] = DateTime(<<1999, 12, 31, 23, 59, 58, 120>>)
  /\ Len(sheets[call.worksheet_name]) = 2
  /\ sheets[call.worksheet_name][2]
       = <<Str("1999-12-31T23:59:58.000120"), Str("")>>

\* the credentials, the token request, the file and the API are all in order
MailInOrder(env) ==
  /\ env.to_email /\ env.credentials /\ env.access_token = "token"
  /\ env.file /\ env.post = "2xx"

\* the call ends before the token is used: no recipient, a credential
\* missing, or no access token in the answer
EndsBeforeToken(env) ==
  \/ ~env.to_email
  \/ ~env.credentials
  \/ env.access_token = "error"

\* C16 as stated: send_pdf_email returns (True, None) only after a POST that
\* was answered 2xx; in every other case it returns (False, message), and
\* without a recipient, a credential or a token it neither reads the PDF
\* file nor makes the request.
C16_EveryOtherCaseReturnsFalse ==
  call.fn = "send_pdf_email" =>
    /\ call.result.success =>
         (call.result.posted /\ call.env.post = "2xx" /\ call.result.error = "")
    /\ ~MailInOrder(call.env) =>
         (~call.result.raised /\ ~call.result.success /\ call.result.error # "")
    /\ EndsBeforeToken(call.env) =>
         (~call.result.read_file /\ ~call.result.posted)

\* an exception leaves send_pdf_email: the token request or the opening of
\* the PDF file raised
MailRaises(env) ==
  /\ env.to_email /\ env.credentials
  /\ \/ env.access_token = "raises"
     \/ env.access_token = "token" /\ ~env.file

\* C16 amended: send_pdf_email returns (True, None) exactly when the POST
\* was made and answered 2xx; it returns (False, message) when the recipient
\* is unset, a credential is missing, the answer to the token request holds
\* no token, the POST is answered with an error status or the POST raises;
\* in the first three cases it neither reads the PDF file nor makes the
\* request.  When the token request or the opening of the PDF file raises,
\* the exception leaves the function and no request is made.
C16_ReturnsFalseOrRaises ==
  call.fn = "send_pdf_email" =>
    /\ call.result.success <=> MailInOrder(call.env)
    /\ call.result.success =>
         (~call.result.raised /\ call.result.posted /\ call.result.error = "")
    /\ call.result.raised <=> MailRaises(call.env)
    /\ call.result.raised => ~call.result.posted
    /\ (~MailInOrder(call.env) /\ ~MailRaises(call.env)) =>
         (~call.result.success /\ call.result.error # "")
    /\ EndsBeforeToken(call.env) =>
         (~call.result.raised /\ ~call.result.read_file /\ ~call.result.posted)
    /\ call.result.posted =>
         (call.env.access_token = "token" /\ call.result.read_file)

\* the answer to the token request held no token although the file and the
\* API were in order: (False, message) without reading and without a POST
C16_Witness ==
  /\ call.fn = "send_pdf_email"
  /\ call.env.to_email /\ call.env.credentials
  /\ call.env.access_token = "error"
  /\ call.env.file /\ call.env.post = "2xx"
  /\ ~call.result.success /\ ~call.result.raised
  /\ ~call.result.read_file /\ ~call.result.posted

\* the glyphs of chars that are not blank (neither blank nor line break)
NonBlank(chars) == SelectSeq(chars, LAMBDA g : g \notin {" ", "\n"})

\* the glyphs of the drawn lines, one line after the other
RECURSIVE DrawnChars(_)
DrawnChars(ops) ==
  IF ops = <<>> THEN <<>> ELSE Head(ops).chars \o DrawnChars(Tail(ops))

\* the lines that wrap chars at max_width: the words of every line of the
\* text, put on a line as long as the line is not wider than max_width
IsWrapOf(lines, chars, max_width) ==
  /\ NonBlank(Join(lines)) = NonBlank(chars)
  /\ \A i \in DOMAIN lines :
       /\ lines[i] # <<>>
       /\ Head(lines[i]) # " " /\ lines[i][Len(lines[i])] # " "
       /\ "\n" \notin Range(lines[i])
       /\ \A j \in 1..(Len(lines[i]) - 1) :
            ~(lines[i][j] = " " /\ lines[i][j + 1] = " ")
       /\ \/ stringWidth(lines[i]) <= max_width
          \/ " " \notin Range(lines[i])

\* C19: draw_wrapped_text draws every line of the word wrap of the text, in
\* order, at x and 14 points below the line before, and returns y lowered
\* by 14 times the number of lines; the drawn lines hold every non-blank
\* character of the text in its order, and a line is wider than the wrap
\* width only when it is a single word.
C19_WrappedTextKeepsEveryLine ==
  call.fn = "draw_wrapped_text" =>
    LET lines == simpleSplit(call.text.s, call.max_width)
        ops == call.result.c.ops
    IN /\ Len(ops) = Len(lines)
       /\ \A i \in DOMAIN ops :
            /\ ops[i].kind = "drawString"
            /\ ops[i].chars = lines[i]
            /\ ops[i].x = call.x
            /\ ops[i].y = call.y - 14 * (i - 1)
            /\ ops[i].page = 1
       /\ call.result.y = call.y - 14 * Len(lines)
       /\ NonBlank(DrawnChars(ops)) = NonBlank(call.text.s)
       /\ IsWrapOf([i \in DOMAIN ops |-> ops[i].chars], call.text.s,
                   call.max_width)

\* a text of two words that do not fit on one line was drawn as two lines
C19_Witness ==
  /\ call.fn = "draw_wrapped_text"
  /\ call.text.s = <<"W", "i", " ", "W">>
  /\ Len(call.result.c.ops) = 2
  /\ call.result.c.ops[1].chars = <<"W", "i">>
  /\ call.result.c.ops[2].chars = <<"W">>
  /\ call.result.y = call.y - 28

\* the operations that draw the field labels of the latest
\* save_submission_pdf call, in order
FieldLabels ==
  SelectSeq(SubSeq(call.layout.ops, 1, call.layout.field_ops),
            LAMBDA o : o.kind = "drawString" /\ o.x = 72)

\* the height the i-th field of the call takes: 20 points, or for a
\* long-text field 16 points, 14 for every line and 10 more
FieldHeight(i) ==
  LET key == call.field_list[i][2]
  IN IF key \in wrapped_text_fields
     THEN 16 + 14 * Len(simpleSplit(StrChars(DataGet(call.data, key)), 450)) + 10
     ELSE 20

\* C17: the first field label is drawn at y = 688 on page 1; when y is
\* below 100 after a field the next label is drawn at y = 720 on a new
\* page, otherwise right below on the same page; so every field label is
\* drawn at 100 <= y <= 720.
C17_FieldLabelsBetween100And720 ==
  call.fn = "save_submission_pdf" =>
    LET labels == FieldLabels
        n == Len(call.field_list)
        Below(i) == labels[i].y - FieldHeight(i)
    IN /\ Len(labels) = n
       /\ \A i \in 1..n :
            /\ labels[i].text = call.field_list[i][1] \o ":"
            /\ 100 <= labels[i].y /\ labels[i].y <= 720
       /\ n > 0 => (labels[1].y = 688 /\ labels[1].page = 1)
       /\ \A i \in 1..(n - 1) :
            IF Below(i) < 100
            THEN labels[i + 1].page = labels[i].page + 1 /\ labels[i + 1].y = 720
            ELSE labels[i + 1].page = labels[i].page /\ labels[i + 1].y = Below(i)
       /\ n > 0 =>
            IF Below(n) < 100
            THEN /\ call.layout.field_pages = labels[n].page + 1
                 /\ call.layout.field_y = 720
            ELSE /\ call.layout.field_pages = labels[n].page
                 /\ call.layout.field_y = Below(n)

\* the incident fields were drawn with a long text that pushed y below 100:
\* a label stands at the top of page 2 and another low on page 1
C17_Witness ==
  /\ call.fn = "save_submission_pdf"
  /\ call.field_list = incident_field_list
  /\ call.data["explanation_of_incident"] = Text(Paragraphs(3))
  /\ \E i \in DOMAIN FieldLabels :
       FieldLabels[i].page = 2 /\ FieldLabels[i].y = 720
  /\ \E i \in DOMAIN FieldLabels :
       FieldLabels[i].page = 1 /\ FieldLabels[i].y < 120

\* the operations of the signature block of the latest save_submission_pdf
\* call
SignatureOps ==
  SubSeq(call.layout.ops, call.layout.field_ops + 1, Len(call.layout.ops))

\* the signature arguments of the call that are given, and those of them
\* with image data
GivenSignatures ==
  SelectSeq(<<call.operator_signature_img, call.supervisor_signature_img>>,
            LAMBDA sig : sig.kind # "none")

\* C18: with at least one signature given, a new page is started before
\* the signature block exactly when y < 350; every given signature has its
\* label, every one with image data its 400x100 image, all on the last page
\* and inside it (the bottom edge of each image is >= 0).  With no
\* signature given, no page and no operation is added.
C18_SignatureBlockFits ==
  call.fn = "save_submission_pdf" =>
    LET L == call.layout
        sigs == SignatureOps
        labels == SelectSeq(sigs, LAMBDA o : o.kind = "drawString")
        images == SelectSeq(sigs, LAMBDA o : o.kind = "drawImage")
    IN IF GivenSignatures = <<>>
       THEN sigs = <<>> /\ L.pages = L.field_pages /\ L.y = L.field_y
       ELSE /\ L.pages = L.field_pages + (IF L.field_y < 350 THEN 1 ELSE 0)
            /\ Len(sigs) = Len(labels) + Len(images)
            /\ Len(labels) = Len(GivenSignatures)
            /\ Len(images) =
                 Len(SelectSeq(GivenSignatures,
                               LAMBDA sig : ~sig.image_data.is_none))
            /\ labels[1].y = (IF L.field_y < 350 THEN 720 ELSE L.field_y)
            /\ (call.operator_signature_img.kind # "none")
                 => labels[1].text = "Operator Signature:"
            /\ (call.supervisor_signature_img.kind # "none")
                 => labels[Len(labels)].text = "Supervisor Signature:"
            /\ \A i \in DOMAIN sigs :
                 /\ sigs[i].page = L.pages
                 /\ sigs[i].x = 72
                 /\ 0 <= sigs[i].y /\ sigs[i].y <= 720
            /\ \A i \in DOMAIN images :
                 /\ images[i].width = 400 /\ images[i].height = 100
                 /\ images[i].y >= 0
                 /\ images[i].y + images[i].height <= letter[2]
                 /\ images[i].x + images[i].width <= letter[1]
                 /\ \E j \in DOMAIN labels :
                      labels[j].y = images[i].y + images[i].height + 15

\* both signatures were drawn after fields that left less than 350 points:
\* the block stands on a page of its own, the supervisor image at 460
C18_Witness ==
  /\ call.fn = "save_submission_pdf"
  /\ call.field_list = pay_field_list
  /\ call.layout.field_y < 350
  /\ call.layout.field_y >= 100
  /\ call.layout.pages = call.layout.field_pages + 1
  /\ Len(SignatureOps) = 4
  /\ SignatureOps[2].kind = "drawImage" /\ SignatureOps[2].y = 605
  /\ SignatureOps[4].kind = "drawImage" /\ SignatureOps[4].y = 460

\* C21: a submit attempts an email only if its own PDF render ended without
\* an exception, so that the file named by filename exists; whether the row
\* was appended plays no part: a submit whose append failed and whose PDF
\* was rendered attempts its email although no row was persisted.
C21_EmailNeedsPdfNotRow ==
  run.form \in Forms =>
    /\ (Attempted("email") \/ run.emails > 0) =>
         /\ run.valid
         /\ Succeeded("pdf")
         /\ run.filename # ""
         /\ FilesNamed(run.filename) # {}
    /\ (run.valid /\ Succeeded("pdf") /\ Failed("gsheet")) =>
         /\ Attempted("email")
         /\ run.emails = 1
         /\ run.rows = 0

\* an email was sent for an incident report whose row was never persisted
C21_Witness ==
  /\ run.form = "incident" /\ run.valid
  /\ Failed("gsheet") /\ Succeeded("pdf") /\ Succeeded("email")
  /\ sheets["Incident Reports"] = <<>>
  /\ email_attempts = 1

\* page is home or a form, and a form's submitted flag is True only while
\* page is that form
PageAndFlagsAgree ==
  /\ session_state["page"] \in {"home"} \cup Forms
  /\ \A form \in Forms :
       Get(SubmittedKey(form), FALSE) => session_state["page"] = form
  /\ ~(Get("incident_submitted", FALSE) /\ Get("pay_exception_submitted", FALSE))

\* C22: before and after every step page is home, incident or
\* pay_exception and a form's submitted flag is True only while page is that
\* form, so the two flags are never True together; page changes only from
\* home to a form, or from a form to home with that form's submitted flag
\* set to False.
C22_PageAndSubmittedFlags ==
  [][/\ PageAndFlagsAgree
     /\ PageAndFlagsAgree'
     /\ session_state'["page"] # session_state["page"] =>
          \/ /\ session_state["page"] = "home"
             /\ session_state'["page"] \in Forms
          \/ /\ session_state["page"] \in Forms
             /\ session_state'["page"] = "home"
             /\ SubmittedKey(session_state["page"]) \in DOMAIN session_state'
             /\ ~session_state'[SubmittedKey(session_state["page"])]]_vars

\* after an incident report was submitted the user returned home and opened
\* the pay exception form: the incident flag is stored as False
C22_Witness ==
  /\ session_state["page"] = "pay_exception"
  /\ Len(sheets["Incident Reports"]) = 1
  /\ "incident_form_data" \in DOMAIN session_state
  /\ "incident_submitted" \in DOMAIN session_state
  /\ ~session_state["incident_submitted"]

\* C23: form_key never decreases, and the only step that changes it is
\* Clear on a form page: form_key grows by exactly 1, page stays, the
\* session keeps no entry but form_key, page and that form's submitted flag,
\* which is False (the lists of missing fields, the stored form data and the
\* entries of the other form are gone), and nothing outside the session
\* changes.
C23_ClearResetsSession ==
  [][/\ session_state'["form_key"] >= session_state["form_key"]
     /\ session_state'["form_key"] # session_state["form_key"] =>
          /\ session_state'["form_key"] = session_state["form_key"] + 1
          /\ session_state["page"] \in Forms
          /\ session_state'["page"] = session_state["page"]
          /\ DOMAIN session_state' =
               {"form_key", "page", SubmittedKey(session_state["page"])}
          /\ ~session_state'[SubmittedKey(session_state["page"])]
          /\ UNCHANGED <<sheets, pdf_files, email_attempts>>]_vars

\* Clear was pressed after an incident report was submitted: the row is in
\* the worksheet and the session holds nothing of the submission
C23_Witness ==
  /\ session_state["form_key"] = 1
  /\ session_state["page"] = "incident"
  /\ DOMAIN session_state = {"form_key", "page", "incident_submitted"}
  /\ ~session_state["incident_submitted"]
  /\ Len(sheets["Incident Reports"]) = 1

\* the operations of the latest save_submission_pdf call that draw text
TextOps ==
  SelectSeq(call.layout.ops,
            LAMBDA o : o.kind \in {"drawString", "drawCentredString"})

\* C24: every line of text save_submission_pdf draws, the lines of a
\* wrapped long text included, is drawn at a y inside its page:
\* 0 <= y <= 792.
C24_EveryTextLineInsidePage ==
  call.fn = "save_submission_pdf" =>
    \A i \in DOMAIN TextOps :
      /\ 0 <= TextOps[i].y
      /\ TextOps[i].y <= letter[2]
      /\ TextOps[i].page <= call.layout.pages

====
